---- MODULE Spec2Model ----
(***************************************************************************)
(* Fake-streaming proxy: one client request handled by one of the three    *)
(* handlers of the repository.                                             *)
(*   "part_000"  : src/unnamed/part_000  (module.exports, word chunker)    *)
(*   "part_001"  : src/unnamed/part_001  (handler, word chunker)           *)
(*   "universal" : src/api/universal_fake_stream_proxy.js                  *)
(* A JavaScript handler runs to completion between two awaits, so every    *)
(* action is the code between two awaits.  Strings are sequences of        *)
(* one-character strings; JavaScript values that are not texts are named   *)
(* by strings ("undefined", "true", "false", ...).                         *)
(***************************************************************************)
EXTENDS Integers, Sequences, FiniteSets, TLC

VARIABLES variant, req, apiKey, upstream, pc, timer, keepAliveInterval,
          disconnected, chunks, idx, ticks, calls, log

\* a chunker applied on its own: which one, its text, its chunk size, its result
VARIABLES chunker, input, size, fragments

chunkerVars == <<chunker, input, size, fragments>>

vars == <<variant, req, apiKey, upstream, pc, timer, keepAliveInterval,
          disconnected, chunks, idx, ticks, calls, log, chunkerVars>>

-----------------------------------------------------------------------------
(* Bounds of the model. *)

\* longest text enumerated exhaustively over the alphabet {"a", " "}
MaxLen == 2
\* heartbeat ticks followed in one session
MaxTicks == 2
\* length of the long completion text (more than 50 characters, more than 20 words)
LongLen == 52
\* longest text and largest chunk size given to a chunker applied on its own
MaxText == 4
MaxSize == 3

-----------------------------------------------------------------------------
(* Program constants. *)

\* chunkText(fullContent, 10)
ChunkWordsP0 == 10
\* chunkText(content, 8)
ChunkWordsP1 == 8
\* const chunkSize = 50
ChunkCharsU == 50

Undefined == "undefined"

\* model = 'gpt-3.5-turbo'
DefaultModel == "gpt-3.5-turbo"
\* temperature = 0.7
DefaultTemperature == "0.7"

-----------------------------------------------------------------------------
(* JavaScript helpers. *)

Min(a, b) == IF a < b THEN a ELSE b

\* JavaScript truthiness of the values the model uses
Truthy(v) == v \notin {Undefined, "false", "null", "0", ""}

\* the positions of the separators in s, in order, between the two ends
Bounds(s) ==
    <<0>> \o SelectSeq([k \in 1..Len(s) |-> k], LAMBDA k : s[k] = " ") \o <<Len(s) + 1>>

\* text.split(' '): the pieces between consecutive separators
split(s) ==
    LET b == Bounds(s)
    IN [j \in 1..Len(b) - 1 |-> SubSeq(s, b[j] + 1, b[j + 1] - 1)]

RECURSIVE join(_, _)
\* words.join(sep)
join(words, sep) ==
    IF Len(words) = 0 THEN <<>>
    ELSE IF Len(words) = 1 THEN words[1]
    ELSE words[1] \o sep \o join(Tail(words), sep)

\* a chunker that drops the last, shorter group of words
chunkText_DropsRemainder(text, chunkSize) ==
    LET words == split(text)
        n == Len(words)
        cnt == n \div chunkSize
    IN [j \in 1..cnt |->
          join(SubSeq(words, (j - 1) * chunkSize + 1, Min(j * chunkSize, n)), <<" ">>)]

\* chunkText(text, chunkSize) of part_000 and part_001
chunkText(text, chunkSize) ==
    LET words == split(text)
        n == Len(words)
        cnt == (n + chunkSize - 1) \div chunkSize
    IN [j \in 1..cnt |->
          join(SubSeq(words, (j - 1) * chunkSize + 1, Min(j * chunkSize, n)), <<" ">>)]

\* the chunking logic of handleFakeStreaming for a string content
charChunks(content, chunkSize) ==
    IF Len(content) = 0 THEN << <<>> >>
    ELSE LET cnt == (Len(content) + chunkSize - 1) \div chunkSize
         IN [j \in 1..cnt |->
               SubSeq(content, (j - 1) * chunkSize + 1, Min(j * chunkSize, Len(content)))]

-----------------------------------------------------------------------------
(* Upstream responses. *)

\* the JSON text of an upstream body: JSON.stringify(responseData)
Stringify(u) == <<"{", u.kind, ":">> \o u.text \o u.msg \o <<",", u.fr, "}">>

RECURSIVE TextsOfLen(_)
TextsOfLen(n) ==
    IF n = 0 THEN {<<>>}
    ELSE {Append(t, c) : t \in TextsOfLen(n - 1), c \in {"a", " "}}

ShortTexts == UNION {TextsOfLen(n) : n \in 0..MaxLen}

\* "a a a ... a " : LongLen characters
LongText == [k \in 1..LongLen |-> IF k % 2 = 1 THEN "a" ELSE " "]

Texts == ShortTexts \cup {LongText}

FinishReasons == {"stop", "length", Undefined}

OverloadedMsg == <<"overloaded">>

Up(res, code, kind, text, fr, msg) ==
    [res |-> res, code |-> code, kind |-> kind, text |-> text, fr |-> fr, msg |-> msg]

\* 2xx with {choices:[{message:{content:text}, finish_reason:fr}], model}
ChatOutcomes == {Up("ok", 200, "chat", t, f, <<>>) : t \in Texts, f \in FinishReasons}
\* 2xx with {choices:[{text:text}]} (no message), 2xx with no choices at all,
\* 2xx with a body that is not JSON, and a chat completion answered with 201
OddOutcomes == {Up("ok", 200, "legacy", t, "stop", <<>>) : t \in {<<>>, <<"a">>}}
                 \cup {Up("ok", 200, "nochoices", <<>>, Undefined, <<>>),
                       Up("ok", 200, "nonjson", <<>>, Undefined, <<>>),
                       Up("ok", 201, "chat", <<"a">>, "stop", <<>>)}
\* non-2xx with {error:{message:"overloaded"}}, and no response at all
ErrorOutcomes == {Up("http", 503, "error", <<>>, Undefined, OverloadedMsg),
                  Up("net", 0, "none", <<>>, Undefined, <<"network">>)}

Outcomes == ChatOutcomes \cup OddOutcomes \cup ErrorOutcomes

\* the outcomes used when the request, not the session, is explored
FewOutcomes == {Up("ok", 200, "chat", LongText, "stop", <<>>),
                Up("ok", 200, "chat", <<"a">>, Undefined, <<>>),
                Up("http", 503, "error", <<>>, Undefined, OverloadedMsg)}

-----------------------------------------------------------------------------
(* Requests. *)

Req(method, stream, messages, model, temperature, max_tokens, top_p, auth, chat, json) ==
    [method |-> method, stream |-> stream, messages |-> messages, model |-> model,
     temperature |-> temperature, max_tokens |-> max_tokens, top_p |-> top_p,
     auth |-> auth, chat |-> chat, json |-> json]

Methods == {"POST", "OPTIONS", "GET"}
StreamValues == {Undefined, "true", "false", "yes"}
MessagesValues == {"array", Undefined, "string"}
AuthValues == {Undefined, "Bearer k", "Basic k"}

\* every request shape; chat and json only matter to the universal handler
AllRequests(v) ==
    {Req(m, s, ms, mo, te, mt, tp, au, ch, js) :
        m \in Methods, s \in StreamValues, ms \in MessagesValues,
        mo \in {Undefined, "m"}, te \in {Undefined, "1"},
        mt \in {Undefined, "5"}, tp \in {Undefined, "x"},
        au \in IF v = "universal" THEN {Undefined} ELSE AuthValues,
        ch \in IF v = "universal" THEN BOOLEAN ELSE {TRUE},
        js \in IF v = "universal" THEN BOOLEAN ELSE {TRUE}}

\* well-formed chat requests, optional fields all absent or all present
SessionRequests(v) ==
    {r \in AllRequests(v) :
        /\ r.method = "POST" /\ r.messages = "array" /\ r.chat /\ r.json
        /\ r.auth \in {Undefined, "Bearer k"}
        /\ \/ r.model = Undefined /\ r.temperature = Undefined
              /\ r.max_tokens = Undefined /\ r.top_p = Undefined
           \/ r.model # Undefined /\ r.temperature # Undefined
              /\ r.max_tokens # Undefined /\ r.top_p # Undefined}

Variants == {"part_000", "part_001", "universal"}

-----------------------------------------------------------------------------
(* The log: everything the handler does that a claim can observe, in order. *)

\* t: kind of event; c: text carried; fr: finish_reason; st: HTTP status;
\* ok: FALSE when the operation threw
Ev(t, c, fr, st, ok) == [t |-> t, c |-> c, fr |-> fr, st |-> st, ok |-> ok, id |-> <<>>]

\* a frame that is a chat.completion.chunk object, with its id field
WithId(e, id) == [e EXCEPT !.id = id]

Headers == Ev("headers", <<>>, "null", 200, TRUE)
Start == Ev("start", <<>>, "null", 0, TRUE)
Stop == Ev("stop", <<>>, "null", 0, TRUE)
Call == Ev("call", <<>>, "null", 0, TRUE)
Resolve == Ev("resolve", <<>>, "null", 0, TRUE)
Heartbeat == Ev("hb", <<>>, "null", 0, TRUE)
Chunk(c, fr) == Ev("chunk", c, fr, 0, TRUE)
RoleChunk == Ev("rolechunk", <<>>, "null", 0, TRUE)
Finish(fr) == Ev("finish", <<>>, fr, 0, TRUE)
ErrorFrame(msg) == Ev("error", msg, "null", 0, TRUE)
Done == Ev("done", <<>>, "null", 0, TRUE)
End == Ev("end", <<>>, "null", 0, TRUE)
Gone == Ev("disconnect", <<>>, "null", 0, TRUE)
Json(st, body) == Ev("json", body, "null", st, TRUE)
Empty(st) == Ev("empty", <<>>, "null", st, TRUE)
Chunker == Ev("chunker", <<>>, "null", 0, TRUE)

\* the events that are writes to the client stream
WriteTypes == {"hb", "chunk", "rolechunk", "finish", "error", "done"}

Failed(e) == [e EXCEPT !.ok = FALSE]


\* the positions of a script at which a write to the client stream stands
WritePoints(frames) == {k \in 1..Len(frames) : frames[k].t \in WriteTypes}

\* Where a script of events of the handler can throw (0: nowhere).  A write
\* of the handler can throw only once the client is gone (the write of a
\* timer tick is in Tick).  res.write of Node may also still succeed then;
\* controller.enqueue of a cancelled ReadableStream always throws.
Throws(frames) ==
    IF ~disconnected \/ WritePoints(frames) = {} THEN {0}
    ELSE IF variant = "universal"
         THEN {CHOOSE k \in WritePoints(frames) : \A j \in WritePoints(frames) : k <= j}
         ELSE {0} \cup WritePoints(frames)

\* the events of a script that threw at position f
Cut(frames, f) ==
    IF f = 0 THEN frames ELSE SubSeq(frames, 1, f - 1) \o <<Failed(frames[f])>>

-----------------------------------------------------------------------------
(* Initial states. *)

InitWith(requests(_), outcomes) ==
    /\ variant \in Variants
    /\ req \in requests(variant)
    /\ apiKey \in IF variant = "universal" THEN {Undefined} ELSE {Undefined, "sk-env"}
    /\ upstream \in outcomes
    /\ pc = "start"
    /\ timer = "none"
    /\ keepAliveInterval = FALSE
    /\ disconnected = FALSE
    /\ chunks = <<>>
    /\ idx = 0
    /\ ticks = 0
    /\ calls = <<>>
    /\ log = <<>>
    /\ chunker = "none" /\ input = <<>> /\ size = 1 /\ fragments = <<>>

\* sessions: well-formed requests, every upstream outcome
Init == InitWith(SessionRequests, Outcomes)

\* requests: every request shape, a few upstream outcomes
InitReq == InitWith(AllRequests, FewOutcomes)

RECURSIVE TimerAfter(_, _)
\* the interval after a script of events: setInterval in startHeartbeat / start(),
\* clearInterval in stopHeartbeat / cancel / the processing
TimerAfter(t, events) ==
    IF Len(events) = 0 THEN t
    ELSE TimerAfter(IF Head(events).t = "start" THEN "running"
                    ELSE IF Head(events).t = "stop" /\ t # "none" THEN "cleared"
                    ELSE t,
                    Tail(events))

\* the handler does the events of a script, in order
Emit(events) ==
    /\ log' = log \o events
    /\ timer' = TimerAfter(timer, events)

\* the handler returns: nothing more runs for this request
Finished(events) ==
    /\ Emit(events)
    /\ pc' = "done"

UpCall(method, body, cred) == [method |-> method, body |-> body, cred |-> cred]

\* a call that is made again after it failed
Attempt_Retried(call) == <<call, call>>

\* the requests one await axios.post(...) / await fetch(...) sends: there is
\* no retry loop, interceptor or retry option around any of the call sites
Attempt(call) == <<call>>

Body(model, messages, temperature, max_tokens, top_p, stream) ==
    [model |-> model, messages |-> messages, temperature |-> temperature,
     max_tokens |-> max_tokens, top_p |-> top_p, stream |-> stream]

\* the body of the inbound request
Inbound(r) == Body(r.model, r.messages, r.temperature, r.max_tokens, r.top_p, r.stream)

Default(v, d) == IF v = Undefined THEN d ELSE v

\* a handler that ignores the Authorization header
requestApiKey_AlwaysDefault(r, key) == key

\* requestApiKey of part_000 and part_001
requestApiKey(r, key) == IF r.auth \in {"Bearer k"} THEN "k" ELSE key

\* a validation that only checks !messages
InvalidMessages_OnlyMissing(r) == r.messages = Undefined

\* !messages || !Array.isArray(messages)
InvalidMessages(r) == r.messages # "array"

\* a handler without the apiKey check
MissingApiKey_Never(key) == FALSE

\* !apiKey
MissingApiKey(key) == ~Truthy(key)

-----------------------------------------------------------------------------
(* src/unnamed/part_000 *)

P0ProcessingMsg == <<"Error processing response from source API.">>
InvalidRequest == <<"invalid_request_error">>
ServerError == <<"server_error">>
MethodNotAllowed == <<"Method not allowed">>

\* requestBody without ...otherParams
P0_requestBody_NoOtherParams(r) ==
    Body(Default(r.model, DefaultModel), r.messages,
         Default(r.temperature, DefaultTemperature), r.max_tokens, Undefined, "false")

\* requestBody
P0_requestBody(r) ==
    Body(Default(r.model, DefaultModel), r.messages,
         Default(r.temperature, DefaultTemperature), r.max_tokens, r.top_p, "false")

\* the inner catch without the stopHeartbeat of the finally
P0_Catch_NoStop(g) ==
    IF g THEN <<ErrorFrame(P0ProcessingMsg), End>>
    ELSE <<Failed(ErrorFrame(P0ProcessingMsg)), End, Failed(Json(500, ServerError))>>

\* the inner catch and finally, then the outer catch when the catch itself threw
P0_Catch(g) ==
    IF g THEN <<ErrorFrame(P0ProcessingMsg), Stop, End>>
    ELSE <<Failed(ErrorFrame(P0ProcessingMsg)), Stop, End, Failed(Json(500, ServerError))>>

\* whether the write of the error payload in the catch can succeed / throw
CatchOutcomes == IF disconnected THEN BOOLEAN ELSE {TRUE}

\* module.exports up to the await of axios.post
P0_Handler ==
    /\ variant = "part_000" /\ pc = "start"
    /\ UNCHANGED <<chunkerVars, variant, req, apiKey, upstream, keepAliveInterval,
                   disconnected, chunks, idx, ticks>>
    /\ IF req.method = "OPTIONS" THEN Finished(<<Empty(200)>>) /\ UNCHANGED calls
       ELSE IF req.method # "POST"
       THEN Finished(<<Json(405, MethodNotAllowed)>>) /\ UNCHANGED calls
       ELSE IF InvalidMessages(req)
       THEN Finished(<<Json(400, InvalidRequest)>>) /\ UNCHANGED calls
       ELSE IF MissingApiKey(apiKey)
       THEN Finished(<<Json(500, ServerError)>>) /\ UNCHANGED calls
       ELSE /\ calls' = calls \o Attempt(UpCall("POST", P0_requestBody(req),
                                              requestApiKey(req, apiKey)))
            /\ Emit(<<Call>>)
            /\ pc' = "awaitUp"

\* Date.now() after k awaited delays of the session: every await delay(100)
\* lets the clock advance, so two reads separated by a delay differ
Now(k) == k

\* id: `chatcmpl-${Date.now()}`, evaluated again for every chunk object
P0_Id(now) == <<"chatcmpl-", now>>

\* the chunk frame of part_000: delta.content is chunk + ' '
P0_Chunk(c, now) == WithId(Chunk(c \o <<" ">>, "null"), P0_Id(now))

\* finalChunk, built when Date.now() reads now
P0_FinalChunk(fr, now) == WithId(Finish(Default(fr, "stop")), P0_Id(now))

\* module.exports from the resolution of axios.post to the first delay
P0_Resolve ==
    /\ variant = "part_000" /\ pc = "awaitUp"
    /\ UNCHANGED <<chunkerVars, variant, req, apiKey, upstream, keepAliveInterval,
                   disconnected, ticks, calls>>
    /\ IF upstream.res # "ok"
       THEN /\ Finished(<<Resolve,
                          IF upstream.res = "http"
                          THEN Json(upstream.code, Stringify(upstream))
                          ELSE Json(500, ServerError)>>)
            /\ UNCHANGED <<chunks, idx>>
       ELSE IF ~Truthy(req.stream)
       THEN /\ Finished(<<Resolve, Json(200, Stringify(upstream))>>)
            /\ UNCHANGED <<chunks, idx>>
       ELSE IF upstream.kind # "chat"
       THEN \* response.data.choices[0].message.content throws
            /\ \E g \in CatchOutcomes :
                  Finished(<<Resolve, Headers, Start>> \o P0_Catch(g))
            /\ UNCHANGED <<chunks, idx>>
       ELSE LET cs == chunkText(upstream.text, ChunkWordsP0)
                try == <<P0_Chunk(cs[1], Now(0))>>
            IN \E f \in Throws(try) :
                 IF f = 0
                 THEN /\ Emit(<<Resolve, Headers, Start, Chunker>> \o try)
                      /\ pc' = "delay"
                      /\ chunks' = cs
                      /\ idx' = 1
                 ELSE /\ \E g \in CatchOutcomes :
                           Finished(<<Resolve, Headers, Start, Chunker>>
                                    \o Cut(try, f) \o P0_Catch(g))
                      /\ chunks' = cs
                      /\ idx' = 0

\* module.exports after a delay(100): the next chunk, or finalChunk and [DONE]
P0_AfterDelay ==
    /\ variant = "part_000" /\ pc = "delay"
    /\ UNCHANGED <<chunkerVars, variant, req, apiKey, upstream, keepAliveInterval,
                   disconnected, chunks, ticks, calls>>
    /\ LET more == idx < Len(chunks)
           try == IF more THEN <<P0_Chunk(chunks[idx + 1], Now(idx))>>
                  ELSE <<P0_FinalChunk(upstream.fr, Now(idx)), Done>>
       IN \E f \in Throws(try) :
            IF f = 0 /\ more
            THEN /\ Emit(try)
                 /\ idx' = idx + 1
                 /\ UNCHANGED pc
            ELSE IF f = 0
            THEN /\ Finished(try \o <<Stop, End>>)
                 /\ UNCHANGED idx
            ELSE /\ \E g \in CatchOutcomes : Finished(Cut(try, f) \o P0_Catch(g))
                 /\ UNCHANGED idx

-----------------------------------------------------------------------------
(* src/unnamed/part_001 *)

InternalMsg == <<"Internal server error">>

\* the body given to axios.post; JSON drops max_tokens when it is undefined
P1_requestBody(r) ==
    Body(Default(r.model, DefaultModel), r.messages,
         Default(r.temperature, DefaultTemperature), r.max_tokens, r.top_p, "false")

\* error.response?.data?.error?.message || 'Internal server error'
P1_ErrorMessage(thrownByUpstream) ==
    IF thrownByUpstream /\ upstream.res = "http" THEN upstream.msg ELSE InternalMsg

\* the catch of the streaming try without its stopHeartbeat
P1_Catch_NoStop(msg, g) ==
    IF g THEN <<ErrorFrame(msg), End>> ELSE <<Failed(ErrorFrame(msg))>>

\* the catch of the streaming try; when its res.write throws, the outer catch
\* finds res.headersSent and does nothing
P1_Catch(msg, g) ==
    IF g THEN <<Stop, ErrorFrame(msg), End>> ELSE <<Stop, Failed(ErrorFrame(msg))>>

\* handler up to the await of axios.post
P1_Handler ==
    /\ variant = "part_001" /\ pc = "start"
    /\ UNCHANGED <<chunkerVars, variant, req, apiKey, upstream, keepAliveInterval,
                   disconnected, chunks, idx, ticks>>
    /\ IF req.method # "POST"
       THEN Finished(<<Json(405, MethodNotAllowed)>>) /\ UNCHANGED calls
       ELSE IF InvalidMessages(req)
       THEN Finished(<<Json(400, InvalidRequest)>>) /\ UNCHANGED calls
       ELSE IF MissingApiKey(apiKey)
       THEN Finished(<<Json(500, ServerError)>>) /\ UNCHANGED calls
       ELSE /\ calls' = calls \o Attempt(UpCall("POST", P1_requestBody(req),
                                              requestApiKey(req, apiKey)))
            /\ IF ~Truthy(req.stream)
               THEN /\ Emit(<<Call>>)
                    /\ pc' = "awaitUpNS"
               ELSE /\ Emit(<<Headers, Start, Call>>)
                    /\ pc' = "awaitUp"

\* handler, if (!stream): from the resolution of axios.post to the return
P1_ResolveNS ==
    /\ variant = "part_001" /\ pc = "awaitUpNS"
    /\ UNCHANGED <<chunkerVars, variant, req, apiKey, upstream, keepAliveInterval,
                   disconnected, chunks, idx, ticks, calls>>
    /\ Finished(<<Resolve,
                  IF upstream.res = "ok" THEN Json(200, Stringify(upstream))
                  ELSE IF upstream.res = "http"
                  THEN Json(upstream.code, Stringify(upstream))
                  ELSE Json(500, ServerError)>>)

\* const chatId = `chatcmpl-${Date.now()}${Math.random()...}`, computed once
chatId == <<"chatId">>

\* the delta.content of the chunk at position k (from 1) of part_001
P1_Chunk(cs, k) ==
    WithId(Chunk(cs[k] \o (IF k < Len(cs) THEN <<" ">> ELSE <<>>), "null"), chatId)

\* startChunk: delta {role: 'assistant', content: ''}
P1_StartChunk == WithId(RoleChunk, chatId)

\* endChunk: delta {}, finish_reason 'stop'
P1_EndChunk == WithId(Finish("stop"), chatId)

\* a handler that writes the terminal marker before its closing chunk
P1_Closing_DoneFirst == <<Done, P1_EndChunk>>

\* the last two writes of the streaming try: endChunk, then 'data: [DONE]\n\n'
P1_Closing == <<P1_EndChunk, Done>>

\* handler, streaming: from the resolution of axios.post to the first delay
P1_Resolve ==
    /\ variant = "part_001" /\ pc = "awaitUp"
    /\ UNCHANGED <<chunkerVars, variant, req, apiKey, upstream, keepAliveInterval,
                   disconnected, ticks, calls>>
    /\ IF upstream.res # "ok"
       THEN /\ \E g \in CatchOutcomes :
                 Finished(<<Resolve>> \o P1_Catch(P1_ErrorMessage(TRUE), g))
            /\ UNCHANGED <<chunks, idx>>
       ELSE IF upstream.kind \in {"nochoices", "nonjson"}
       THEN \* fullResponse.choices[0] throws
            /\ \E g \in CatchOutcomes :
                 Finished(<<Resolve, Stop>> \o P1_Catch(P1_ErrorMessage(FALSE), g))
            /\ UNCHANGED <<chunks, idx>>
       ELSE LET content == IF upstream.kind = "chat" THEN upstream.text ELSE <<>>
                cs == chunkText(content, ChunkWordsP1)
                try == <<P1_StartChunk>>
            IN /\ chunks' = cs
               /\ idx' = 0
               /\ \E f \in Throws(try) :
                    IF f = 0
                    THEN /\ Emit(<<Resolve, Stop, Chunker>> \o try)
                         /\ pc' = "delay"
                    ELSE \E g \in CatchOutcomes :
                           Finished(<<Resolve, Stop, Chunker>> \o Cut(try, f)
                                    \o P1_Catch(P1_ErrorMessage(FALSE), g))

\* handler after a delay: the next content chunk, or endChunk, [DONE] and res.end
P1_AfterDelay ==
    /\ variant = "part_001" /\ pc = "delay"
    /\ UNCHANGED <<chunkerVars, variant, req, apiKey, upstream, keepAliveInterval,
                   disconnected, chunks, ticks, calls>>
    /\ LET more == idx < Len(chunks)
           try == IF more THEN <<P1_Chunk(chunks, idx + 1)>>
                  ELSE P1_Closing
       IN \E f \in Throws(try) :
            IF f = 0 /\ more
            THEN /\ Emit(try)
                 /\ idx' = idx + 1
                 /\ UNCHANGED pc
            ELSE IF f = 0
            THEN Finished(try \o <<End>>) /\ UNCHANGED idx
            ELSE /\ \E g \in CatchOutcomes :
                      Finished(Cut(try, f) \o P1_Catch(P1_ErrorMessage(FALSE), g))
                 /\ UNCHANGED idx

-----------------------------------------------------------------------------
(* src/api/universal_fake_stream_proxy.js *)

\* the keep-alive frame: a content-free chunk with the id "chatcmpl-keepalive"
keepAliveMessage == WithId(Heartbeat, <<"chatcmpl-keepalive">>)

\* responseData?.id || ("chatcmpl-" + Date.now().toString(36) + ...), computed once;
\* the upstream's ids and the generated ones are not "chatcmpl-keepalive"
completionId == <<"completionId">>

ProxyErrorMsg == <<"Internal proxy error">>

\* isPotentialChatCompletion
isPotentialChatCompletion(r) == r.method = "POST" /\ r.chat

\* wasOriginallyStreaming as parsedBody.stream !== false
wasOriginallyStreaming_NotFalse(r) ==
    isPotentialChatCompletion(r) /\ r.json /\ r.stream # "false"

\* wasOriginallyStreaming as the truthiness of parsedBody.stream
wasOriginallyStreaming_Truthy(r) ==
    isPotentialChatCompletion(r) /\ r.json /\ Truthy(r.stream)

\* wasOriginallyStreaming: parsedBody.stream === true of a body that parses
wasOriginallyStreaming(r) == isPotentialChatCompletion(r) /\ r.json /\ r.stream = "true"

\* modifiedBodyContent, by its fields
modifiedBodyContent(r) ==
    IF wasOriginallyStreaming(r) THEN [Inbound(r) EXCEPT !.stream = "false"]
    ELSE Inbound(r)

\* the catch of the asynchronous processing when an enqueue threw, and the
\* finally: on a cancelled stream the error frame and close() throw as well
U_Catch == <<Failed(ErrorFrame(ProxyErrorMsg)), Failed(End)>>

\* handler, then handleFakeStreaming or handlePassthrough up to the await of fetch
U_Handler ==
    /\ variant = "universal" /\ pc = "start"
    /\ UNCHANGED <<chunkerVars, variant, req, apiKey, upstream, disconnected, chunks, idx, ticks>>
    /\ calls' = calls \o Attempt(UpCall(req.method, modifiedBodyContent(req), req.auth))
    /\ IF isPotentialChatCompletion(req) /\ wasOriginallyStreaming(req)
       THEN /\ Emit(<<keepAliveMessage, Start, Headers, Call>>)
            /\ keepAliveInterval' = TRUE
            /\ pc' = "awaitUp"
       ELSE /\ Emit(<<Call>>)
            /\ pc' = "awaitUpNS"
            /\ UNCHANGED keepAliveInterval

\* handlePassthrough from the resolution of fetch
U_ResolveNS ==
    /\ variant = "universal" /\ pc = "awaitUpNS"
    /\ UNCHANGED <<chunkerVars, variant, req, apiKey, upstream, keepAliveInterval,
                   disconnected, chunks, idx, ticks, calls>>
    /\ Finished(<<Resolve,
                  IF upstream.res = "net" THEN Json(502, <<"Proxy error">>)
                  ELSE Json(upstream.code, Stringify(upstream))>>)

\* the content extracted from responseData
U_Content(u) ==
    IF u.kind \in {"chat", "legacy"} /\ Len(u.text) > 0 THEN u.text ELSE Stringify(u)

\* chunkData with finish_reason "stop" on every chunk
U_Chunk_AlwaysStop(cs, k) == WithId(Chunk(cs[k], "stop"), completionId)

\* chunkData of the chunk at position k (from 1)
U_Chunk(cs, k) ==
    WithId(Chunk(cs[k], IF k = Len(cs) THEN "stop" ELSE "null"), completionId)

\* if (keepAliveInterval) clearInterval(keepAliveInterval)
U_Clear == IF keepAliveInterval THEN <<Stop>> ELSE <<>>

\* the asynchronous processing of handleFakeStreaming from the resolution of fetch
U_Resolve ==
    /\ variant = "universal" /\ pc = "awaitUp"
    /\ UNCHANGED <<chunkerVars, variant, req, apiKey, upstream, disconnected, ticks, calls>>
    /\ IF upstream.res = "net"
       THEN \* fetch rejects: catch, finally
            /\ LET try == <<ErrorFrame(ProxyErrorMsg), Done>>
               IN \E f \in Throws(try) :
                    Finished(<<Resolve>> \o U_Clear \o Cut(try, f)
                             \o <<IF f = 0 THEN End ELSE Failed(End)>>)
            /\ UNCHANGED <<keepAliveInterval, chunks, idx>>
       ELSE IF upstream.res = "ok" /\ upstream.kind = "nonjson"
       THEN \* backendResponse.json() rejects: catch, finally
            /\ LET try == <<ErrorFrame(ProxyErrorMsg), Done>>
               IN \E f \in Throws(try) :
                    Finished(<<Resolve>> \o U_Clear \o Cut(try, f)
                             \o <<IF f = 0 THEN End ELSE Failed(End)>>)
            /\ keepAliveInterval' = FALSE
            /\ UNCHANGED <<chunks, idx>>
       ELSE IF upstream.res = "http"
       THEN /\ LET try == <<ErrorFrame(upstream.msg), Done>>
               IN \E f \in Throws(try) :
                    Finished(<<Resolve>> \o U_Clear \o Cut(try, f)
                             \o (IF f = 0 THEN <<End>> ELSE U_Catch))
            /\ keepAliveInterval' = FALSE
            /\ UNCHANGED <<chunks, idx>>
       ELSE LET cs == charChunks(U_Content(upstream), ChunkCharsU)
                try == IF Len(cs) = 1 THEN <<U_Chunk(cs, 1), Done>> ELSE <<U_Chunk(cs, 1)>>
            IN /\ keepAliveInterval' = FALSE
               /\ chunks' = cs
               /\ \E f \in Throws(try) :
                    IF f = 0 /\ Len(cs) > 1
                    THEN /\ Emit(<<Resolve>> \o U_Clear \o <<Chunker>> \o try)
                         /\ pc' = "delay"
                         /\ idx' = 1
                    ELSE /\ Finished(<<Resolve>> \o U_Clear \o <<Chunker>> \o Cut(try, f)
                                     \o (IF f = 0 THEN <<End>> ELSE U_Catch))
                         /\ idx' = IF f = 0 THEN 1 ELSE 0

\* the asynchronous processing after the 30ms delay: the next chunk, then
\* [DONE] and close after the last one
U_AfterDelay ==
    /\ variant = "universal" /\ pc = "delay"
    /\ UNCHANGED <<chunkerVars, variant, req, apiKey, upstream, keepAliveInterval,
                   disconnected, chunks, ticks, calls>>
    /\ LET last == idx + 1 = Len(chunks)
           try == IF last THEN <<U_Chunk(chunks, idx + 1), Done>>
                  ELSE <<U_Chunk(chunks, idx + 1)>>
       IN \E f \in Throws(try) :
            IF f = 0 /\ ~last
            THEN /\ Emit(try)
                 /\ idx' = idx + 1
                 /\ UNCHANGED pc
            ELSE /\ Finished(Cut(try, f) \o (IF f = 0 THEN <<End>> ELSE U_Catch))
                 /\ idx' = IF f = 0 THEN idx + 1 ELSE idx

-----------------------------------------------------------------------------
(* The timer and the client. *)

\* a tick without the try/catch around its write: the exception leaves the
\* timer callback
sendHeartbeat_NoCatch(hb, ok) ==
    [frames |-> <<IF ok THEN hb ELSE Failed(hb)>>, thrown |-> ~ok]

\* sendHeartbeat(res) / the setInterval callback of start(): the write of the
\* keep-alive frame inside try/catch; a failure is logged and goes no further
sendHeartbeat(hb, ok) ==
    [frames |-> <<IF ok THEN hb ELSE Failed(hb)>>, thrown |-> FALSE]

\* One tick of the interval.  Its write can fail at any time: the callback
\* may find the pipe broken before, or without, the close event.  The
\* universal proxy's callback also clears the interval when its enqueue fails.
Tick ==
    /\ timer = "running" /\ pc \in {"awaitUp", "delay"} /\ ticks < MaxTicks
    /\ ticks' = ticks + 1
    /\ \E ok \in BOOLEAN :
          LET hb == IF variant = "universal" THEN keepAliveMessage ELSE Heartbeat
              r == sendHeartbeat(hb, ok)
              cleared == IF ~ok /\ variant = "universal" THEN <<Stop>> ELSE <<>>
          IN /\ IF r.thrown THEN Finished(r.frames)
                ELSE Emit(r.frames \o cleared) /\ UNCHANGED pc
             /\ keepAliveInterval' = IF cleared = <<>> THEN keepAliveInterval ELSE FALSE
    /\ UNCHANGED <<chunkerVars, variant, req, apiKey, upstream,
                   disconnected, chunks, idx, calls>>

\* the client goes away: req.on('close') of part_001, cancel(reason) of the
\* universal proxy's stream; part_000 listens to nothing
Disconnect ==
    /\ pc \in {"awaitUp", "awaitUpNS", "delay"} /\ ~disconnected
    /\ disconnected' = TRUE
    /\ IF variant = "part_001" /\ pc # "awaitUpNS"
       THEN /\ Emit(<<Gone, Stop>>)
       ELSE IF variant = "universal" /\ pc # "awaitUpNS" /\ keepAliveInterval
       THEN /\ Emit(<<Gone, Stop>>)
       ELSE /\ Emit(<<Gone>>)
    /\ UNCHANGED <<chunkerVars, variant, req, apiKey, upstream, pc, keepAliveInterval,
                   chunks, idx, ticks, calls>>

-----------------------------------------------------------------------------

Next ==
    \/ P0_Handler
    \/ P0_Resolve
    \/ P0_AfterDelay
    \/ P1_Handler
    \/ P1_ResolveNS
    \/ P1_Resolve
    \/ P1_AfterDelay
    \/ U_Handler
    \/ U_ResolveNS
    \/ U_Resolve
    \/ U_AfterDelay
    \/ Tick
    \/ Disconnect

Spec == Init /\ [][Next]_vars

SpecReq == InitReq /\ [][Next]_vars

\* The event loop runs every continuation that is ready: the handler's first
\* step, the code after the await of the upstream call once the call has
\* resolved, failed or timed out, and the code after each setTimeout delay.
\* Heartbeat ticks and the client's disconnect are not required to happen.
\* At most one of these steps is enabled in a state, and only taking it
\* disables it.
HandlerStep ==
    \/ P0_Handler \/ P0_Resolve \/ P0_AfterDelay
    \/ P1_Handler \/ P1_ResolveNS \/ P1_Resolve \/ P1_AfterDelay
    \/ U_Handler \/ U_ResolveNS \/ U_Resolve \/ U_AfterDelay

Fairness == WF_vars(HandlerStep)

\* the sessions followed to their end: a streaming and a non-streaming
\* request, an upstream that answers a long and a short completion, a body
\* without choices, an error status, and one that does not answer
LiveRequests(v) ==
    {r \in SessionRequests(v) :
        r.model = Undefined /\ r.auth = Undefined /\ r.stream \in {"true", Undefined}}

LiveOutcomes ==
    FewOutcomes \cup {Up("ok", 200, "nochoices", <<>>, Undefined, <<>>),
                      Up("net", 0, "none", <<>>, Undefined, <<"network">>)}

InitLive == InitWith(LiveRequests, LiveOutcomes)

SpecLive == InitLive /\ [][Next]_vars /\ Fairness

-----------------------------------------------------------------------------
(* The chunkers applied on their own, to every text and chunk size. *)

ChunkerTexts == UNION {TextsOfLen(n) : n \in 0..MaxText} \cup {LongText}

ChunkerSizes == 1..MaxSize \cup {ChunkWordsP0, ChunkWordsP1, ChunkCharsU}

InitChunker ==
    /\ variant = "part_000"
    /\ req = Req("POST", "true", "array", "m", "1", Undefined, Undefined, Undefined, TRUE, TRUE)
    /\ apiKey = "sk-env"
    /\ upstream = Up("ok", 200, "chat", <<>>, "stop", <<>>)
    /\ pc = "done"
    /\ timer = "none"
    /\ keepAliveInterval = FALSE
    /\ disconnected = FALSE
    /\ chunks = <<>>
    /\ idx = 0
    /\ ticks = 0
    /\ calls = <<>>
    /\ log = <<>>
    /\ chunker = "none"
    /\ input \in ChunkerTexts
    /\ size \in ChunkerSizes
    /\ fragments = <<>>

\* const chunks = chunkText(text, size)
ApplyChunkText ==
    /\ chunker = "none"
    /\ chunker' = "chunkText"
    /\ fragments' = chunkText(input, size)
    /\ UNCHANGED <<variant, req, apiKey, upstream, pc, timer, keepAliveInterval,
                   disconnected, chunks, idx, ticks, calls, log, input, size>>

\* the chunks array built by handleFakeStreaming with chunkSize = size
ApplyCharChunks ==
    /\ chunker = "none"
    /\ chunker' = "charChunks"
    /\ fragments' = charChunks(input, size)
    /\ UNCHANGED <<variant, req, apiKey, upstream, pc, timer, keepAliveInterval,
                   disconnected, chunks, idx, ticks, calls, log, input, size>>

NextChunker ==
    \/ ApplyChunkText
    \/ ApplyCharChunks

SpecChunker == InitChunker /\ [][NextChunker]_vars

-----------------------------------------------------------------------------
(* Reading the log. *)

\* the positions of the events of the kinds ts
At(ts) == {k \in 1..Len(log) : log[k].t \in ts}

Has(t) == At({t}) # {}

First(ts) == CHOOSE k \in At(ts) : \A j \in At(ts) : k <= j

\* the chunk-shaped frames that carry content, and all chunk-shaped frames
ContentTypes == {"chunk", "rolechunk"}
ChunkTypes == {"chunk", "rolechunk", "finish"}

\* the handler treats the request as a streaming one
Streaming ==
    IF variant = "universal" THEN wasOriginallyStreaming(req) ELSE Truthy(req.stream)

\* the request is a chat-completion request that the handler accepts: a POST
\* with a JSON body, to a /chat/completions URL (universal) or with messages
ChatRequest ==
    /\ req.method = "POST"
    /\ IF variant = "universal" THEN req.chat /\ req.json ELSE req.messages = "array"

BodyFields == {"model", "messages", "temperature", "max_tokens", "top_p"}

-----------------------------------------------------------------------------
(* C1 *)

\* C1: the body of every upstream call made for a chat-completion request
\* has stream equal to false, whatever the client's stream value.
C1_UpstreamNeverStreams ==
    ChatRequest => \A k \in 1..Len(calls) : calls[k].body.stream = "false"

-----------------------------------------------------------------------------
(* C2 *)

\* C2 as stated: the body sent upstream equals the inbound body in every
\* field except stream: nothing added, nothing dropped, nothing changed.
C2_BodyIdenticalExceptStream ==
    ChatRequest =>
        \A k \in 1..Len(calls) : \A f \in BodyFields : calls[k].body[f] = Inbound(req)[f]

\* C2 amended: every field the client sent other than stream goes
\* upstream unchanged, and a field the client did not send stays absent,
\* except model and temperature, which part_000 and part_001 fill in with
\* 'gpt-3.5-turbo' and 0.7.
C2_BodyKeepsClientFields ==
    ChatRequest =>
        \A k \in 1..Len(calls) : \A f \in BodyFields :
            IF Inbound(req)[f] # Undefined
            THEN calls[k].body[f] = Inbound(req)[f]
            ELSE \/ calls[k].body[f] = Undefined
                 \/ /\ variant # "universal"
                    /\ f = "model"
                    /\ calls[k].body[f] = DefaultModel
                 \/ /\ variant # "universal"
                    /\ f = "temperature"
                    /\ calls[k].body[f] = DefaultTemperature

\* C2 witness: part_000 has sent a body upstream for a request without
\* model that carries a provider-specific field.
C2_Witness ==
    /\ variant = "part_000" /\ ChatRequest /\ Len(calls) = 1
    /\ req.model = Undefined /\ req.top_p = "x" /\ req.max_tokens = Undefined
    /\ calls[1].body.model = DefaultModel /\ calls[1].body.top_p = "x"

-----------------------------------------------------------------------------
(* C3 *)

\* C3: in a streaming session the upstream call is issued after the SSE
\* headers are set and the heartbeat timer is started, and the timer runs
\* as long as the call is pending and the client is connected.
C3_HeartbeatCoversUpstreamWait ==
    Streaming /\ ChatRequest /\ Has("call") =>
        /\ Has("headers") /\ First({"headers"}) < First({"call"})
        /\ Has("start") /\ First({"start"}) < First({"call"})
        /\ (pc = "awaitUp" /\ ~disconnected => timer = "running")

-----------------------------------------------------------------------------
(* C4 *)

\* C4: the heartbeat timer is stopped after the upstream call resolves and
\* before the first content chunk is written, and no heartbeat frame is
\* written after a content chunk.
C4_NoHeartbeatAmongChunks ==
    At(ContentTypes) # {} =>
        /\ Has("stop")
        /\ First({"resolve"}) < First({"stop"}) \/ disconnected
        /\ First({"stop"}) < First(ContentTypes)
        /\ \A k \in At({"hb"}) : k < First(ContentTypes)

-----------------------------------------------------------------------------
(* C5 *)

\* the request got past validation and the handler treats it as streaming
StreamingSession == Streaming /\ ChatRequest /\ Has("call")

\* C5 as stated: on every exit path of a streaming session (one that has
\* a heartbeat timer) the stop operation of the timer is invoked exactly
\* once, and no heartbeat tick occurs after it.
C5_StopExactlyOnce ==
    pc = "done" /\ StreamingSession /\ Has("start") =>
        /\ Cardinality(At({"stop"})) = 1
        /\ \A k \in At({"hb"}) : k < First({"stop"})

\* C5 amended: on every exit path of a session whose timer was started the
\* stop operation has been invoked at least once when the session ends
\* (more than once on some paths), and no heartbeat tick occurs after the
\* first stop.
C5_StoppedOnEveryExit ==
    /\ pc = "done" /\ Has("start") => Has("stop")
    /\ Has("stop") => \A k \in At({"hb"}) : k < First({"stop"})

\* C5 witness: a session that ended after a client disconnect, with ticks
\* before the disconnect, and with stop invoked twice.
C5_Witness ==
    /\ pc = "done" /\ StreamingSession /\ disconnected
    /\ ticks > 0 /\ Has("hb")
    /\ Cardinality(At({"stop"})) >= 2

-----------------------------------------------------------------------------
(* C6 *)

\* C6: when a streaming session has ended its heartbeat timer is not
\* running, and no heartbeat is written after the stream is closed.
C6_NoLiveTimerAtEnd ==
    /\ pc = "done" => timer # "running"
    /\ \A k \in At({"hb"}) : \A j \in At({"end"}) : k < j

\* C6 witness: a session that ended after an upstream error, its stream
\* closed, its timer started and cleared.
C6_Witness ==
    /\ pc = "done" /\ Has("start") /\ Has("end") /\ upstream.res = "http"
    /\ timer = "cleared"

-----------------------------------------------------------------------------
(* C7 *)

\* the chunk-shaped frames written with a non-null finish_reason
FinishFrames == {k \in At(ChunkTypes) : log[k].fr # "null" /\ log[k].ok}

\* the session wrote [DONE] and no error frame
Completed ==
    /\ pc = "done"
    /\ \E k \in At({"done"}) : log[k].ok
    /\ ~Has("error")

\* C7 as stated: every emulated session emits exactly one chunk with a
\* non-null finish_reason, and it is the last chunk frame before [DONE].
C7_OneFinishReasonEverySession ==
    pc = "done" /\ Has("headers") =>
        /\ Cardinality(FinishFrames) = 1
        /\ \A k \in FinishFrames :
              /\ \A j \in At(ChunkTypes) : j <= k
              /\ \E d \in At({"done"}) : k < d

\* C7 amended: no session emits more than one chunk with a non-null
\* finish_reason, and a session that completes without an error frame emits
\* exactly one, as the last chunk frame, written right before [DONE].
C7_OneFinishReasonWhenCompleted ==
    /\ Cardinality(FinishFrames) <= 1
    /\ Completed =>
          /\ Cardinality(FinishFrames) = 1
          /\ \A k \in FinishFrames :
                /\ \A j \in At(ChunkTypes) : j <= k
                /\ k < Len(log) /\ log[k + 1].t = "done"

\* C7 witness: the universal handler completed a stream of several chunks.
C7_Witness ==
    /\ Completed /\ variant = "universal" /\ Len(chunks) > 1
    /\ Cardinality(At({"chunk"})) = Len(chunks)

-----------------------------------------------------------------------------
(* C8 *)

\* C8: a streaming request whose upstream call fails with a non-2xx status
\* gets the SSE stream with status 200, exactly one error frame carrying
\* the upstream message, then [DONE], then the end of the stream; the
\* upstream status is never the status of the response.
C8_UpstreamErrorInStream ==
    pc = "done" /\ StreamingSession /\ upstream.res = "http" /\ ~disconnected =>
        /\ Has("headers") /\ ~Has("json")
        /\ Cardinality(At({"error"})) = 1
        /\ \A k \in At({"error"}) :
              /\ log[k].c = upstream.msg
              /\ k + 2 = Len(log)
              /\ log[k + 1] = Done
              /\ log[k + 2] = End

-----------------------------------------------------------------------------
(* C9 *)

RECURSIVE ContentOf(_)
\* the delta.content of the content frames written, concatenated in order
ContentOf(l) ==
    IF Len(l) = 0 THEN <<>>
    ELSE (IF Head(l).t \in ContentTypes /\ Head(l).ok THEN Head(l).c ELSE <<>>)
         \o ContentOf(Tail(l))

\* C9: in a successful streaming session the delta.content of the content
\* chunks, concatenated in emission order, is exactly the upstream
\* completion text, and the chunks are followed by one finish_reason frame
\* and then [DONE].
C9_ContentReconstructed ==
    Completed /\ upstream.res = "ok" /\ upstream.kind = "chat" =>
        /\ ContentOf(log) = upstream.text
        /\ Cardinality(FinishFrames) = 1
        /\ \A k \in FinishFrames : k < Len(log) /\ log[k + 1].t = "done"

-----------------------------------------------------------------------------
(* C10 *)

\* C10: a request whose stream is false or absent never starts the
\* heartbeat timer, never runs the chunker and writes no SSE frame; what it
\* answers, when the upstream responds, is one JSON response: the upstream body.
C10_PassthroughUntouched ==
    req.stream \in {"false", Undefined} =>
        /\ timer = "none" /\ ~Has("start") /\ ~Has("chunker")
        /\ At(WriteTypes \cup {"headers", "end"}) = {}
        /\ (pc = "done" /\ Has("call") /\ upstream.res # "net" =>
               /\ At({"json"}) = {Len(log)}
               /\ log[Len(log)].c = Stringify(upstream))

\* C10 witness: a request without stream got the upstream body back.
C10_Witness ==
    /\ pc = "done" /\ req.stream = Undefined /\ ChatRequest
    /\ upstream.res = "ok" /\ Has("call") /\ Has("json")

-----------------------------------------------------------------------------
(* C11 *)

\* the handlers of the chat endpoint
ChatEndpoint == variant \in {"part_000", "part_001"}

\* C11: on the chat endpoint a POST whose messages is missing or is not an
\* array makes no upstream call and starts no heartbeat timer, and its only
\* output is the 400 response with the invalid_request_error body.
C11_InvalidMessagesRejected ==
    ChatEndpoint /\ req.method = "POST" /\ req.messages # "array" =>
        /\ calls = <<>> /\ ~Has("call")
        /\ timer = "none" /\ ~Has("start")
        /\ (pc = "done" => log = <<Json(400, InvalidRequest)>>)

\* C11 witness: a streaming POST whose messages is a string was answered.
C11_Witness ==
    /\ ChatEndpoint /\ req.method = "POST" /\ req.messages = "string"
    /\ req.stream = "true" /\ Truthy(apiKey)
    /\ pc = "done" /\ log = <<Json(400, InvalidRequest)>>

-----------------------------------------------------------------------------
(* C12 *)

\* C12 as stated, for the POST requests: with the server-side credential
\* unset a request to the chat endpoint, whatever its body and Authorization
\* header, makes no upstream call and is answered 500 server_error.
C12_Every500WhenKeyUnset ==
    ChatEndpoint /\ ~Truthy(apiKey) /\ req.method = "POST" =>
        /\ calls = <<>>
        /\ (pc = "done" => log = <<Json(500, ServerError)>>)

\* C12 amended: with the server-side credential unset no request to the chat
\* endpoint makes an upstream call or starts a timer, and a POST whose
\* messages is an array is answered 500 server_error whatever its other
\* body fields and its Authorization header are.
C12_ValidPost500WhenKeyUnset ==
    ChatEndpoint /\ ~Truthy(apiKey) =>
        /\ calls = <<>> /\ ~Has("call") /\ ~Has("start")
        /\ (pc = "done" /\ req.method = "POST" /\ req.messages = "array" =>
               log = <<Json(500, ServerError)>>)

\* C12 witness: a streaming POST with valid messages and a bearer token was
\* answered 500 because the server-side credential is unset.
C12_Witness ==
    /\ ChatEndpoint /\ ~Truthy(apiKey) /\ req.method = "POST"
    /\ req.messages = "array" /\ req.auth = "Bearer k" /\ req.stream = "true"
    /\ pc = "done" /\ log = <<Json(500, ServerError)>>

-----------------------------------------------------------------------------
(* C13 *)

\* the request carries "Authorization: Bearer <token>"
BearerSupplied == req.auth = "Bearer k"

\* the handler answered 500 server_error without calling the upstream
Misconfigured500 == pc = "done" /\ calls = <<>> /\ log = <<Json(500, ServerError)>>

\* C13 as stated: the credential sent upstream is the request's bearer token
\* when one is supplied and the server-side default otherwise, and the 500
\* for a missing credential happens only when neither is present.
C13_500OnlyWhenNeither ==
    ChatEndpoint =>
        /\ \A k \in 1..Len(calls) :
               calls[k].cred = IF BearerSupplied THEN "k" ELSE apiKey
        /\ (Misconfigured500 => ~BearerSupplied /\ ~Truthy(apiKey))

\* C13 amended: the credential sent upstream is the request's bearer token
\* when one is supplied and the server-side default otherwise; an upstream
\* call is made only when the server-side default is set, and the 500 for a
\* missing credential happens exactly when the server-side default is unset,
\* for a valid POST, whether or not a bearer token is supplied.
C13_CredentialChoice ==
    ChatEndpoint =>
        /\ \A k \in 1..Len(calls) :
               /\ calls[k].cred = IF BearerSupplied THEN "k" ELSE apiKey
               /\ Truthy(calls[k].cred) /\ Truthy(apiKey)
        /\ (Misconfigured500 => ~Truthy(apiKey))
        /\ (pc = "done" /\ req.method = "POST" /\ req.messages = "array"
               /\ ~Truthy(apiKey) => Misconfigured500)

\* C13 witness: the server-side default is set and the upstream was called
\* with the request's bearer token instead.
C13_Witness ==
    /\ ChatEndpoint /\ BearerSupplied /\ apiKey = "sk-env"
    /\ Len(calls) = 1 /\ calls[1].cred = "k" /\ pc = "done"

-----------------------------------------------------------------------------
(* C14 *)

\* C14: for every text and every chunk size greater than 0, joining the
\* fragments a chunker returns with the separator it split on (a space for
\* chunkText, nothing for the character chunker) gives back the text, and an
\* empty text gives exactly one empty fragment.
C14_ChunksReassemble ==
    /\ chunker = "chunkText" =>
          /\ join(fragments, <<" ">>) = input
          /\ (input = <<>> => fragments = << <<>> >>)
    /\ chunker = "charChunks" =>
          /\ join(fragments, <<>>) = input
          /\ (input = <<>> => fragments = << <<>> >>)

\* C14 witness: a text of several words was cut into more than one fragment,
\* the last one shorter than the chunk size.
C14_Witness ==
    /\ chunker = "chunkText" /\ size = 2 /\ Len(split(input)) = 3
    /\ Len(fragments) = 2

-----------------------------------------------------------------------------
(* C15 *)

\* C15: once the client has disconnected the handler attempts no further
\* write to the stream: no heartbeat, no content chunk, no error frame and
\* no terminal marker stands in the log after the disconnect.
C15_NoWriteAfterDisconnect ==
    \A k \in At({"disconnect"}) : \A j \in At(WriteTypes) : j < k

-----------------------------------------------------------------------------
(* C16 *)

\* the calls of res.end() / controller.close() on the stream
Closes == At({"end"})

\* C16: in every session that opened the event stream the handler has
\* closed the stream handle exactly once when it returns, whether the
\* session succeeded, failed or lost its client: never twice, never zero
\* times.
C16_ClosedExactlyOnce ==
    /\ Has("headers") => Cardinality(Closes) <= 1
    /\ (pc = "done" /\ Has("headers") => Cardinality(Closes) = 1)

-----------------------------------------------------------------------------
(* C17 *)

\* C17: every session that opened the event stream eventually terminates,
\* the handler returned and the stream closed, given that the upstream call
\* resolves, fails or times out.
C17_EventuallyClosed ==
    Has("headers") ~> (pc = "done" /\ Closes # {})

\* the handler itself always returns
C17_HandlerReturns == <>(pc = "done")

-----------------------------------------------------------------------------
(* C18 *)

\* C18: when the upstream call succeeded and the handler then failed with
\* the event stream already open, the error frame it wrote to the client is
\* followed by the [DONE] marker, and the marker by the close of the stream.
C18_ErrorFrameThenDone ==
    pc = "done" /\ upstream.res = "ok" /\ Has("headers") =>
        \A k \in At({"error"}) :
            log[k].ok =>
                /\ k + 2 <= Len(log)
                /\ log[k + 1] = Done
                /\ log[k + 2].t = "end"

-----------------------------------------------------------------------------
(* C19 *)

\* C19: a non-streaming request that reached the upstream is answered with
\* the upstream's status code and JSON body unchanged, for a 2xx and for a
\* non-2xx answer alike; when the upstream did not answer at all the client
\* gets a 500 or a 502 with an error body made by the handler.
C19_StatusAndBodyForwarded ==
    pc = "done" /\ ~Streaming /\ Has("call") =>
        /\ At({"json"}) = {Len(log)}
        /\ IF upstream.res = "net"
           THEN /\ log[Len(log)].st \in {500, 502}
                /\ log[Len(log)].c \in {ServerError, <<"Proxy error">>}
           ELSE log[Len(log)] = Json(upstream.code, Stringify(upstream))

-----------------------------------------------------------------------------
(* C20 *)

\* C20: on the chat endpoint an OPTIONS request is answered 200 with an
\* empty body, a request whose method is neither POST nor OPTIONS is
\* answered 405, and neither makes an upstream call.
C20_OptionsAndOtherMethods ==
    ChatEndpoint /\ req.method # "POST" =>
        /\ calls = <<>> /\ ~Has("call")
        /\ (pc = "done" =>
               log = IF req.method = "OPTIONS" THEN <<Empty(200)>>
                     ELSE <<Json(405, MethodNotAllowed)>>)

-----------------------------------------------------------------------------
(* C21 *)

\* C21: a client request causes at most one upstream call, on the streaming
\* and the passthrough path, whether the call succeeds or fails.
C21_AtMostOneUpstreamCall ==
    /\ Len(calls) <= 1
    /\ Cardinality(At({"call"})) <= 1
    /\ Cardinality(At({"resolve"})) <= Len(calls)

\* C21 witness: a streaming session whose only upstream call failed has ended.
C21_Witness ==
    /\ pc = "done" /\ Streaming /\ upstream.res = "net"
    /\ Len(calls) = 1 /\ Has("resolve")

-----------------------------------------------------------------------------
(* C22 *)

\* the frames that are chunk objects: content chunks, the role chunk, the
\* closing chunk and the content-free chunks sent as keep-alive
ChunkShaped == {k \in 1..Len(log) : log[k].id # <<>>}

\* C22: all chunk-shaped frames of one emulated stream, the content chunks,
\* the closing chunk and any content-free chunk used as heartbeat, carry the
\* same id.
C22_OneIdPerStream ==
    \A j, k \in ChunkShaped : log[j].id = log[k].id

-----------------------------------------------------------------------------
(* C23 *)

\* C23: a successful emulated stream has a closing chunk, a chunk with an
\* empty delta, whose finish_reason is the one the upstream reported, and
\* "stop" only when the upstream reported none.
C23_ClosingChunkFinishReason ==
    Completed /\ upstream.res = "ok" /\ upstream.kind = "chat" =>
        /\ FinishFrames # {}
        /\ \A k \in FinishFrames :
              /\ log[k].t = "finish" /\ log[k].c = <<>>
              /\ log[k].fr = Default(upstream.fr, "stop")

-----------------------------------------------------------------------------
(* C24 *)

\* the upstream answered a chat completion whose content is the empty string
EmptyCompletion ==
    upstream.res = "ok" /\ upstream.kind = "chat" /\ upstream.text = <<>>

\* C24: a streaming session whose upstream completion content is the empty
\* string, with the client connected to the end, emits exactly one content
\* chunk, whose delta.content is the empty string, and then finishes with a
\* finish_reason frame and [DONE], without an error frame.
C24_EmptyCompletionOneEmptyChunk ==
    pc = "done" /\ StreamingSession /\ EmptyCompletion /\ ~disconnected =>
        /\ Cardinality(At({"chunk"})) = 1
        /\ \A k \in At({"chunk"}) : log[k].c = <<>>
        /\ Completed /\ FinishFrames # {}

-----------------------------------------------------------------------------
(* C25 *)

\* C25: once the stream headers of a session have been sent the handler
\* makes no further attempt at an HTTP-level response: no status code is
\* set and no JSON body is sent after them, whatever fails later.
C25_NoHttpResponseAfterHeaders ==
    \A h \in At({"headers"}) : \A k \in At({"json", "empty"}) : k < h

-----------------------------------------------------------------------------
(* C26 *)

\* the heartbeat ticks whose write failed
FailedTicks == {k \in At({"hb"}) : ~log[k].ok}

\* C26: a heartbeat tick whose write fails does not end or fail the session:
\* the handler has not returned because of it, no error frame, HTTP
\* response or close follows it, the upstream call still resolves, and a
\* session whose upstream then succeeds with the client connected goes
\* through its stop of the heartbeat to the finish frame, [DONE] and close.
C26_FailedTickSwallowed ==
    \A k \in FailedTicks :
        /\ (k = Len(log) => pc # "done")
        /\ (k < Len(log) => log[k + 1].t \notin {"error", "json", "end", "done"})
        /\ (pc = "done" /\ Has("call") => Has("resolve"))
        /\ (pc = "done" /\ ~disconnected /\ upstream.res = "ok" /\ upstream.kind = "chat" =>
               Completed /\ Has("stop") /\ Has("end") /\ timer # "running"
               /\ \E j \in At({"stop"}) : k < j)

\* C26 witness: in part_001 a tick failed while the upstream call was
\* pending, the call then resolved and the stream was completed.
C26_Witness ==
    /\ variant = "part_001" /\ pc = "done" /\ ~disconnected /\ Completed
    /\ \E k \in FailedTicks : \E j \in At({"resolve"}) : k < j

\* the same in the universal proxy
C26_WitnessUniversal ==
    /\ variant = "universal" /\ pc = "done" /\ ~disconnected /\ Completed
    /\ \E k \in FailedTicks : \E j \in At({"resolve"}) : k < j

-----------------------------------------------------------------------------
(* C27 *)

\* C27: in every streaming session [DONE] is written at most once, and once
\* it has been written no further frame, heartbeat, content chunk or error
\* frame, is written or attempted on that stream.
C27_DoneOnceAndLast ==
    /\ Cardinality(At({"done"})) <= 1
    /\ \A k \in At({"done"}) :
          log[k].ok => \A j \in At(WriteTypes) : j <= k

\* C27 witness: the session wrote [DONE] after several chunks and has ended.
C27_Witness ==
    /\ pc = "done" /\ Cardinality(At({"chunk"})) >= 2
    /\ \E k \in At({"done"}) : log[k].ok /\ Has("hb")

-----------------------------------------------------------------------------
(* C28 *)

\* the request is a POST to a URL containing /chat/completions whose body
\* parses as JSON with stream strictly equal to true
StrictStreamRequest ==
    req.method = "POST" /\ req.chat /\ req.json /\ req.stream = "true"

C28_WitnessNotJson ==
    /\ variant = "universal" /\ pc = "done"
    /\ req.method = "POST" /\ req.chat /\ ~req.json /\ req.stream = "true"
    /\ Has("json") /\ calls[1].body.stream = "true"

====
